---- MODULE Spec2Model ----
(***************************************************************************)
(* A model of symbolic_pymc/tensorflow/printing.py: TFlowPrinter, tf_dprint *)
(* and the three cases of the single-dispatch visitor _tf_dprint.          *)
(*                                                                         *)
(* Strings are sequences of tokens, so that string concatenation is \o and *)
(* a prefix of a line is a real prefix.  The recursion of _tf_dprint is an *)
(* explicit stack of frames; the head of `stack` is the running frame.     *)
(***************************************************************************)
EXTENDS Integers, Sequences, FiniteSets, TLC

\* Longest chain of one-input operations among the graphs printed.
MaxChain == 3
\* Number of top-level tf_dprint calls in one behaviour.
MaxCalls == 2

NumNodes == MaxChain + 1
\* Value nodes (tensors).  An input that is no value node (a logic variable
\* standing directly in an input list) is written 0.
Nodes == 1..NumNodes
\* The value nodes the caller passes to tf_dprint.
Roots == 1..2

(***************************************************************************)
(* Strings                                                                 *)
(***************************************************************************)
\* The literal "|  " of lines 91, 94 and 101.
Indent3 == <<"|", " ", " ">>

\* " " * indent
Spaces(n) == [i \in 1..n |-> " "]

RECURSIVE Rep(_, _)
\* k copies of the string s
Rep(s, k) == IF k = 0 THEN <<>> ELSE s \o Rep(s, k - 1)

NodeNames == <<"n1", "n2", "n3", "n4", "n5", "n6">>

(***************************************************************************)
(* The graph objects read by the printer (tf.Tensor / TFlowMetaTensor and  *)
(* their operations).  Only the accessors the printer uses are kept.       *)
(***************************************************************************)
\* op.st: "ok", "var" (isvar(obj.op)) or "unavailable" (obj.op raises
\* AttributeError, as for an eager tensor).
MkOp(st, type, invar, inputs, ndvar, payload) ==
    [st |-> st, type |-> type, invar |-> invar, inputs |-> inputs,
     ndvar |-> ndvar, payload |-> payload]

MkNode(kind, name, resolved, op) ==
    [kind |-> kind, name |-> name, value_index |-> "0",
     dtype |-> IF resolved THEN [hasname |-> TRUE, name |-> "float32", repr |-> "<dtype: 'float32'>"]
                           ELSE [hasname |-> FALSE, name |-> "", repr |-> "~dtype"],
     shape |-> IF resolved THEN [ok |-> TRUE, list |-> "[]"]
                           ELSE [ok |-> FALSE, list |-> ""],
     op |-> op]

\* A value node produced by an operation of the given type and inputs.
OpNode(kind, name, type, inputs) ==
    MkNode(kind, name, TRUE, MkOp("ok", type, FALSE, inputs, FALSE, "ok"))

TermTags ==
    {"leaf_tf", "leaf_meta", "opvar", "invar", "unavailable", "const_tf",
     "const_tf_raises", "const_meta", "const_meta_raises", "const_ndvar"}

\* A value node at which the traversal ends.
Term(tag, name) ==
    CASE tag = "leaf_tf" -> OpNode("tf", name, "Placeholder", <<>>)
      [] tag = "leaf_meta" -> OpNode("meta", name, "Placeholder", <<>>)
      [] tag = "opvar" -> MkNode("meta", name, FALSE, MkOp("var", "", FALSE, <<>>, FALSE, "ok"))
      [] tag = "invar" -> MkNode("meta", name, FALSE, MkOp("ok", "Add", TRUE, <<>>, FALSE, "ok"))
      [] tag = "unavailable" -> MkNode("tf", name, TRUE, MkOp("unavailable", "", FALSE, <<>>, FALSE, "ok"))
      [] tag = "const_tf" -> MkNode("tf", name, TRUE, MkOp("ok", "Const", FALSE, <<>>, FALSE, "ok"))
      [] tag = "const_tf_raises" -> MkNode("tf", name, TRUE, MkOp("ok", "Const", FALSE, <<>>, FALSE, "raises"))
      [] tag = "const_meta" -> MkNode("meta", name, TRUE, MkOp("ok", "Const", FALSE, <<>>, FALSE, "ok"))
      [] tag = "const_meta_raises" -> MkNode("meta", name, TRUE, MkOp("ok", "Const", FALSE, <<>>, FALSE, "raises"))
      [] tag = "const_ndvar" -> MkNode("meta", name, TRUE, MkOp("ok", "Const", FALSE, <<>>, TRUE, "ok"))

KindOfTag(tag) ==
    IF tag \in {"leaf_tf", "unavailable", "const_tf", "const_tf_raises"} THEN "tf" ELSE "meta"

\* n one-input operations 1 <- 2 <- ... <- n, the last one fed by `last`:
\* node n+1 (a Term(tag)), 0 (no value node) or 1 (a cycle).
Chain(n, tag, last) ==
    [k \in Nodes |->
        IF k < n THEN OpNode(KindOfTag(tag), NodeNames[k], "Neg", <<k + 1>>)
        ELSE IF k = n THEN OpNode(KindOfTag(tag), NodeNames[k], "Neg", <<last>>)
        ELSE IF k = n + 1 THEN Term(tag, NodeNames[k])
        ELSE OpNode(KindOfTag(tag), NodeNames[k], "Placeholder", <<>>)]

\* Every way of ending the longest chain, and every length of a chain that
\* ends in a plain value node, in no value node, or in its own root.
Chains ==
    {Chain(MaxChain, tag, MaxChain + 1) : tag \in TermTags}
    \cup {Chain(n, tag, n + 1) : n \in 1..MaxChain, tag \in {"leaf_tf", "leaf_meta"}}
    \cup {Chain(n, "leaf_meta", 0) : n \in 1..MaxChain}
    \cup {Chain(n, tag, 1) : n \in 1..MaxChain, tag \in {"leaf_tf", "leaf_meta"}}

SiblingTags == {"leaf_meta", "opvar", "invar", "unavailable"}

\* A two-input root over the given second and third node; the rest are leaves.
Binary(kind, in1, n2, n3) ==
    [k \in Nodes |->
        IF k = 1 THEN OpNode(kind, NodeNames[1], "Add", in1)
        ELSE IF k = 2 THEN n2
        ELSE IF k = 3 THEN n3
        ELSE OpNode(kind, NodeNames[k], "Placeholder", <<>>)]

Binaries ==
    \* two operands that end the traversal in every pair of ways
    {Binary("meta", <<2, 3>>, Term(t2, NodeNames[2]), Term(t3, NodeNames[3])) :
        t2 \in SiblingTags, t3 \in SiblingTags}
    \* a diamond: node 3 feeds both the root and node 2
    \cup {Binary(k, <<2, 3>>, OpNode(k, NodeNames[2], "Neg", <<3>>),
                 OpNode(k, NodeNames[3], "Neg", <<4>>)) : k \in {"tf", "meta"}}
    \* the same operand twice
    \cup {Binary(k, <<2, 2>>, OpNode(k, NodeNames[2], "Neg", <<3>>),
                 OpNode(k, NodeNames[3], "Placeholder", <<>>)) : k \in {"tf", "meta"}}
    \* two distinct value nodes with equal fields
    \cup {Binary(k, <<2, 3>>, OpNode(k, "twin", "Neg", <<4>>),
                 OpNode(k, "twin", "Neg", <<4>>)) : k \in {"tf", "meta"}}
    \* inputs that are no value nodes, and a root feeding itself
    \cup {Binary("meta", <<0, 2>>, OpNode("meta", NodeNames[2], "Neg", <<0>>),
                 OpNode("meta", NodeNames[3], "Placeholder", <<>>)),
          Binary("meta", <<2, 0>>, OpNode("meta", NodeNames[2], "Neg", <<3>>),
                 OpNode("meta", NodeNames[3], "Neg", <<1>>)),
          Binary("tf", <<1, 2>>, OpNode("tf", NodeNames[2], "Neg", <<1>>),
                 OpNode("tf", NodeNames[3], "Placeholder", <<>>))}

Graphs == Chains \cup Binaries


(***************************************************************************)
(* TFlowPrinter                                                            *)
(***************************************************************************)
\* TFlowPrinter(str, buffer): the formatter is str throughout.
TFlowPrinter(buffer) ==
    [buffer |-> buffer, indentation |-> <<>>, printed_subgraphs |-> {}]

\* The indent argument of `indented`: an int or a str.
IntIndent(n) == [isint |-> TRUE, n |-> n, s |-> <<>>]
StrIndent(s) == [isint |-> FALSE, n |-> 0, s |-> s]

\* A variant of `indented` that sets the indentation to the increment
\* instead of appending it.
indented_enter_replacing(p, indent) ==
    [p EXCEPT !.indentation = IF indent.isint THEN Spaces(indent.n) ELSE indent.s]

\* `indented` up to its yield: the printer with the longer indentation.
indented_enter(p, indent) ==
    [p EXCEPT !.indentation = IF indent.isint THEN @ \o Spaces(indent.n)
                                              ELSE @ \o indent.s]

\* A variant of `indented` without try/finally: the indentation is restored
\* only when the block ends normally.
indented_exit_unprotected(p, pre_indentation, raising) ==
    IF raising THEN p ELSE [p EXCEPT !.indentation = pre_indentation]

\* The finally clause of `indented`; `raising` tells whether the block raised.
indented_exit(p, pre_indentation, raising) ==
    [p EXCEPT !.indentation = pre_indentation]

\* TFlowPrinter.format with formatter = str
format(p, obj) == p.indentation \o obj

\* TFlowPrinter.println: one write to the printer's buffer
println(bufs, p, obj) ==
    [bufs EXCEPT ![p.buffer] = Append(@, format(p, obj) \o <<"\n">>)]

(***************************************************************************)
(* What the tensor case reads of a value node                              *)
(***************************************************************************)
isvar_op(node) == node.op.st = "var"
isvar_inputs(node) == node.op.invar
isvar_node_def(node) == node.op.ndvar

shape_str(node) == IF node.shape.ok THEN node.shape.list ELSE "Unknown"

\* The header of line 85.
prefix(node) ==
    <<"Tensor(", IF isvar_op(node) THEN "~op" ELSE node.op.type, "):",
      node.value_index, ",\tdtype=",
      IF node.dtype.hasname THEN node.dtype.name ELSE node.dtype.repr,
      ",\tshape=", shape_str(node), ",\t\"", node.name, "\"">>

\* A variant of the chain without the branch of lines 90-92.
Branch_without_inputsvar(node) ==
    IF isvar_op(node) THEN "return"
    ELSE IF Len(node.op.inputs) > 0 THEN "inputs"
    ELSE IF node.op.type = "Const" THEN "const"
    ELSE "fallthrough"

\* A variant of the chain whose line 93 reads len(obj.op.inputs) > 1.
Branch_more_than_one(node) ==
    IF isvar_op(node) THEN "return"
    ELSE IF isvar_inputs(node) THEN "inputsvar"
    ELSE IF Len(node.op.inputs) > 1 THEN "inputs"
    ELSE IF node.op.type = "Const" THEN "const"
    ELSE "fallthrough"

\* The if/elif chain of lines 88-100.
Branch(node) ==
    IF isvar_op(node) THEN "return"
    ELSE IF isvar_inputs(node) THEN "inputsvar"
    ELSE IF Len(node.op.inputs) > 0 THEN "inputs"
    ELSE IF node.op.type = "Const" THEN "const"
    ELSE "fallthrough"

\* A variant in which value nodes with equal fields are equal.
NodeEq_structural(gr, a, b) == gr[a] = gr[b]

\* == of two value nodes a and b of graph gr, as the set of line 24 applies it.
NodeEq(gr, a, b) == a = b

\* A variant of line 95 that never finds the value node.
InPrinted_never(gr, obj, printed) == FALSE

\* obj in printer.printed_subgraphs
InPrinted(gr, obj, printed) == \E e \in printed : NodeEq(gr, e, obj)

\* A variant of line 96 that forgets to record the value node.
AddPrinted_dropped(gr, obj, printed) == printed

\* printer.printed_subgraphs.add(obj)
AddPrinted(gr, obj, printed) ==
    IF InPrinted(gr, obj, printed) THEN printed ELSE printed \cup {obj}

\* A variant of the loop that takes the inputs last to first.
InputOrder_reversed(inputs) == [k \in 1..Len(inputs) |-> inputs[Len(inputs) + 1 - k]]

\* The inputs in the order the loop of line 118 takes them.
InputOrder(inputs) == inputs

(***************************************************************************)
(* State                                                                   *)
(***************************************************************************)
VARIABLES
    g,          \* the graph: value node -> its fields
    printers,   \* "user": the caller's printer; "default": the one of line 66
    bufs,       \* "buf": the caller's buffer; "stdout": sys.stdout
    cur,        \* the printer of the running (or last) call
    root,       \* the obj of the running (or last) call
    stack,      \* frames of _tf_dprint, and below them the caller's scopes
    exc,        \* the exception in flight, or the one the last call raised
    phase,      \* "idle" or "running" (inside tf_dprint)
    ncalls,     \* calls made
    result,     \* how the last call ended
    log,        \* for each line of the running (or last) call: what it is
    entry,      \* the printer and the buffer length when the call began
    expanded,   \* the value nodes line 97 expanded in this call, in order
    userExpanded \* the value nodes line 97 ever expanded through the caller's printer

vars == <<g, printers, bufs, cur, root, stack, exc, phase, ncalls, result, log, entry,
          expanded, userExpanded>>

\* An exception: its type and the value node (with its place among the
\* inputs of the consuming operation) whose frame raised it.
Exc(type, node, parent, idx) ==
    [type |-> type, node |-> node, parent |-> parent, idx |-> idx]

NoExc == Exc("none", 0, 0, 0)

TensorFrame(n, parent, idx) ==
    [fn |-> "tensor", obj |-> n, pc |-> "start", i |-> 0, pre |-> <<>>,
     inc |-> <<>>, parent |-> parent, idx |-> idx, mark |-> 0]

OpFrame(n, mark) ==
    [fn |-> "op", obj |-> n, pc |-> "loop", i |-> 1, pre |-> <<>>,
     inc |-> <<>>, parent |-> 0, idx |-> 0, mark |-> mark]

CallerFrame(pre, inc) ==
    [fn |-> "caller", obj |-> 0, pc |-> "with", i |-> 0, pre |-> pre,
     inc |-> inc, parent |-> 0, idx |-> 0, mark |-> 0]

Top == Head(stack)
P == printers[cur]

\* The frame on top belongs to the traversal and no exception is in flight.
Stepping ==
    /\ phase = "running"
    /\ exc.type = "none"
    /\ stack # <<>>
    /\ Top.fn \in {"tensor", "op"}

\* Tensor frames under the top frame: the expanded value nodes around it.
Enclosing(s) == Cardinality({k \in 2..Len(s) : s[k].fn = "tensor"})

LogEntry(what, node, depth, parent, idx) ==
    [what |-> what, node |-> node, depth |-> depth, parent |-> parent, idx |-> idx]

Init ==
    /\ g \in Graphs
    /\ printers = [user |-> TFlowPrinter("buf"), default |-> TFlowPrinter("stdout")]
    /\ bufs = [buf |-> <<>>, stdout |-> <<>>]
    /\ cur = "user"
    /\ root = 1
    /\ stack = <<>>
    /\ exc = NoExc
    /\ phase = "idle"
    /\ ncalls = 0
    /\ result = "none"
    /\ log = <<>>
    /\ entry = [indentation |-> <<>>, printed |-> {}, buflen |-> 0]
    /\ expanded = <<>>
    /\ userExpanded = {}


(***************************************************************************)
(* tf_dprint                                                               *)
(***************************************************************************)
\* A variant of tf_dprint without the check of lines 55-63.
NotInspectable_unchecked(node) == FALSE

\* Lines 55-58: a tf.Tensor whose .op raises AttributeError.
NotInspectable(node) == node.kind = "tf" /\ node.op.st = "unavailable"

\* A variant in which the default printer is built once and shared by
\* every call that passes none.
PrinterOfCall_shared(ps, pname) == ps

\* Lines 65-66: the printer the call uses; None builds a new one on sys.stdout.
PrinterOfCall(ps, pname) ==
    IF pname = "default" THEN [ps EXCEPT !.default = TFlowPrinter("stdout")] ELSE ps

\* tf_dprint(obj, printer) up to its call of _tf_dprint (lines 55-68).
Call(r, pname) ==
    /\ phase = "idle"
    /\ ncalls < MaxCalls
    /\ ~NotInspectable(g[r])
    /\ printers' = PrinterOfCall(printers, pname)
    /\ cur' = pname
    /\ root' = r
    /\ stack' = <<TensorFrame(r, 0, 0)>> \o stack
    /\ phase' = "running"
    /\ ncalls' = ncalls + 1
    /\ result' = "none"
    /\ log' = <<>>
    /\ entry' = [indentation |-> printers'[pname].indentation,
                 printed |-> printers'[pname].printed_subgraphs,
                 buflen |-> Len(bufs[printers'[pname].buffer])]
    /\ exc' = NoExc
    /\ expanded' = <<>>
    /\ UNCHANGED <<g, bufs, userExpanded>>

\* tf_dprint raising the ValueError of lines 59-63.
CallRejected(r, pname) ==
    /\ phase = "idle"
    /\ ncalls < MaxCalls
    /\ NotInspectable(g[r])
    /\ cur' = pname
    /\ root' = r
    /\ ncalls' = ncalls + 1
    /\ result' = "ValueError"
    /\ log' = <<>>
    /\ entry' = [indentation |-> printers[pname].indentation,
                 printed |-> printers[pname].printed_subgraphs,
                 buflen |-> Len(bufs[printers[pname].buffer])]
    /\ exc' = Exc("ValueError", r, 0, 0)
    /\ expanded' = <<>>
    /\ UNCHANGED <<g, printers, bufs, stack, phase, userExpanded>>

\* No frame of the traversal is left on the stack.
AtBottom == IF stack = <<>> THEN TRUE ELSE Top.fn = "caller"

\* _tf_dprint returned to tf_dprint, which returns.
Finish ==
    /\ phase = "running"
    /\ exc.type = "none"
    /\ AtBottom
    /\ phase' = "idle"
    /\ result' = "returned"
    /\ UNCHANGED <<g, printers, bufs, cur, root, stack, exc, ncalls, log, entry, expanded, userExpanded>>

\* An exception leaves tf_dprint.
Propagate ==
    /\ phase = "running"
    /\ exc.type # "none"
    /\ AtBottom
    /\ phase' = "idle"
    /\ result' = exc.type
    /\ UNCHANGED <<g, printers, bufs, cur, root, stack, exc, ncalls, log, entry, expanded, userExpanded>>

(***************************************************************************)
(* _tf_dprint, tensor case (lines 76-112)                                  *)
(***************************************************************************)
\* Lines 80-86: the header.
TensorHeader ==
    /\ Stepping /\ Top.fn = "tensor" /\ Top.pc = "start"
    /\ g[Top.obj].op.st # "unavailable"
    /\ bufs' = println(bufs, P, prefix(g[Top.obj]))
    /\ log' = Append(log, LogEntry("header", Top.obj, Enclosing(stack), Top.parent, Top.idx))
    /\ stack' = <<[Top EXCEPT !.pc = "branch"]>> \o Tail(stack)
    /\ UNCHANGED <<g, printers, cur, root, exc, phase, ncalls, result, entry, expanded, userExpanded>>

\* Line 85 when obj.op raises AttributeError: nothing is printed.
TensorHeaderRaises ==
    /\ Stepping /\ Top.fn = "tensor" /\ Top.pc = "start"
    /\ g[Top.obj].op.st = "unavailable"
    /\ exc' = Exc("AttributeError", Top.obj, Top.parent, Top.idx)
    /\ UNCHANGED <<g, printers, bufs, cur, root, stack, phase, ncalls, result, log, entry, expanded, userExpanded>>

\* Lines 88-89, or no branch of the chain taken: return.
TensorReturn ==
    /\ Stepping /\ Top.fn = "tensor" /\ Top.pc = "branch"
    /\ Branch(g[Top.obj]) \in {"return", "fallthrough"}
    /\ stack' = Tail(stack)
    /\ UNCHANGED <<g, printers, bufs, cur, root, exc, phase, ncalls, result, log, entry, expanded, userExpanded>>

\* Lines 91, 94, 101: with printer.indented("|  ").
EnterScope ==
    /\ Stepping /\ Top.fn = "tensor" /\ Top.pc = "branch"
    /\ Branch(g[Top.obj]) \in {"inputsvar", "inputs", "const"}
    /\ printers' = [printers EXCEPT ![cur] = indented_enter(@, StrIndent(Indent3))]
    /\ stack' = <<[Top EXCEPT !.pc = Branch(g[Top.obj]), !.pre = P.indentation,
                              !.inc = Indent3]>> \o Tail(stack)
    /\ UNCHANGED <<g, bufs, cur, root, exc, phase, ncalls, result, log, entry, expanded, userExpanded>>

\* Line 92.
PrintInputsVar ==
    /\ Stepping /\ Top.fn = "tensor" /\ Top.pc = "inputsvar"
    /\ bufs' = println(bufs, P, <<"~inputs">>)
    /\ log' = Append(log, LogEntry("inputsvar", Top.obj, Enclosing(stack) + 1, Top.parent, Top.idx))
    /\ stack' = <<[Top EXCEPT !.pc = "exit"]>> \o Tail(stack)
    /\ UNCHANGED <<g, printers, cur, root, exc, phase, ncalls, result, entry, expanded, userExpanded>>

\* Lines 95-97: first expansion; the operation's frame goes on top.
Expand ==
    /\ Stepping /\ Top.fn = "tensor" /\ Top.pc = "inputs"
    /\ ~InPrinted(g, Top.obj, P.printed_subgraphs)
    /\ printers' = [printers EXCEPT ![cur].printed_subgraphs = AddPrinted(g, Top.obj, @)]
    /\ stack' = <<OpFrame(Top.obj, Len(log)), [Top EXCEPT !.pc = "exit"]>> \o Tail(stack)
    /\ expanded' = Append(expanded, Top.obj)
    /\ userExpanded' = IF cur = "user" THEN userExpanded \cup {Top.obj} ELSE userExpanded
    /\ UNCHANGED <<g, bufs, cur, root, exc, phase, ncalls, result, log, entry>>

\* Lines 98-99.
PrintEllipsis ==
    /\ Stepping /\ Top.fn = "tensor" /\ Top.pc = "inputs"
    /\ InPrinted(g, Top.obj, P.printed_subgraphs)
    /\ bufs' = println(bufs, P, <<"...">>)
    /\ log' = Append(log, LogEntry("ellipsis", Top.obj, Enclosing(stack) + 1, Top.parent, Top.idx))
    /\ stack' = <<[Top EXCEPT !.pc = "exit"]>> \o Tail(stack)
    /\ UNCHANGED <<g, printers, cur, root, exc, phase, ncalls, result, entry, expanded, userExpanded>>

\* The constant's value is read by line 103 (tf.Tensor) or line 108.
ReadsPayload(node) == node.kind = "tf" \/ ~isvar_node_def(node)

\* Lines 102-112 with a value: the array string is printed.
ConstPrint ==
    /\ Stepping /\ Top.fn = "tensor" /\ Top.pc = "const"
    /\ ReadsPayload(g[Top.obj]) /\ g[Top.obj].op.payload = "ok"
    /\ bufs' = println(bufs, P, <<"array">>)
    /\ log' = Append(log, LogEntry("payload", Top.obj, Enclosing(stack) + 1, Top.parent, Top.idx))
    /\ stack' = <<[Top EXCEPT !.pc = "exit"]>> \o Tail(stack)
    /\ UNCHANGED <<g, printers, cur, root, exc, phase, ncalls, result, entry, expanded, userExpanded>>

\* Lines 103 or 110-112 raising inside the with block.
ConstRaises ==
    /\ Stepping /\ Top.fn = "tensor" /\ Top.pc = "const"
    /\ ReadsPayload(g[Top.obj]) /\ g[Top.obj].op.payload = "raises"
    /\ exc' = Exc("Error", Top.obj, Top.parent, Top.idx)
    /\ UNCHANGED <<g, printers, bufs, cur, root, stack, phase, ncalls, result, log, entry, expanded, userExpanded>>

\* Lines 104-106: the placeholder node_def is printed, then return.
ConstNodeDefVar ==
    /\ Stepping /\ Top.fn = "tensor" /\ Top.pc = "const"
    /\ ~ReadsPayload(g[Top.obj])
    /\ bufs' = println(bufs, P, <<"~node_def">>)
    /\ log' = Append(log, LogEntry("node_def", Top.obj, Enclosing(stack) + 1, Top.parent, Top.idx))
    /\ stack' = <<[Top EXCEPT !.pc = "exit"]>> \o Tail(stack)
    /\ UNCHANGED <<g, printers, cur, root, exc, phase, ncalls, result, entry, expanded, userExpanded>>

\* The with block ends normally: lines 35-36, then the case returns.
ExitScope ==
    /\ Stepping /\ Top.fn = "tensor" /\ Top.pc = "exit"
    /\ printers' = [printers EXCEPT ![cur] = indented_exit(@, Top.pre, FALSE)]
    /\ stack' = Tail(stack)
    /\ UNCHANGED <<g, bufs, cur, root, exc, phase, ncalls, result, log, entry, expanded, userExpanded>>

(***************************************************************************)
(* _tf_dprint, operation case (lines 115-119) and default case (71-73)     *)
(***************************************************************************)
\* The loop takes an input that is a value node: the tensor case.
OpVisitInput ==
    /\ Stepping /\ Top.fn = "op"
    /\ Top.i <= Len(g[Top.obj].op.inputs)
    /\ InputOrder(g[Top.obj].op.inputs)[Top.i] \in Nodes
    /\ stack' = <<TensorFrame(InputOrder(g[Top.obj].op.inputs)[Top.i], Top.obj, Top.i),
                  [Top EXCEPT !.i = @ + 1]>> \o Tail(stack)
    /\ UNCHANGED <<g, printers, bufs, cur, root, exc, phase, ncalls, result, log, entry, expanded, userExpanded>>

\* The loop takes an input that is no value node: the default case prints it.
OpPrintOpaque ==
    /\ Stepping /\ Top.fn = "op"
    /\ Top.i <= Len(g[Top.obj].op.inputs)
    /\ InputOrder(g[Top.obj].op.inputs)[Top.i] \notin Nodes
    /\ bufs' = println(bufs, P, <<"~x">>)
    /\ log' = Append(log, LogEntry("opaque", 0, Enclosing(stack), Top.obj, Top.i))
    /\ stack' = <<[Top EXCEPT !.i = @ + 1]>> \o Tail(stack)
    /\ UNCHANGED <<g, printers, cur, root, exc, phase, ncalls, result, entry, expanded, userExpanded>>

\* The loop is over.
OpReturn ==
    /\ Stepping /\ Top.fn = "op"
    /\ Top.i > Len(g[Top.obj].op.inputs)
    /\ stack' = Tail(stack)
    /\ UNCHANGED <<g, printers, bufs, cur, root, exc, phase, ncalls, result, log, entry, expanded, userExpanded>>

\* A frame of the traversal holds an open indentation scope.
InScope(f) == f.fn = "tensor" /\ f.pc \in {"inputsvar", "inputs", "const", "exit"}

\* The exception leaves the top frame; an open scope runs its finally clause.
Unwind ==
    /\ phase = "running" /\ exc.type # "none"
    /\ stack # <<>> /\ Top.fn \in {"tensor", "op"}
    /\ printers' = IF InScope(Top)
                   THEN [printers EXCEPT ![cur] = indented_exit(@, Top.pre, TRUE)]
                   ELSE printers
    /\ stack' = Tail(stack)
    /\ UNCHANGED <<g, bufs, cur, root, exc, phase, ncalls, result, log, entry, expanded, userExpanded>>

(***************************************************************************)
(* The caller's own use of its printer between calls                       *)
(***************************************************************************)
CallerIndents == {IntIndent(2), StrIndent(<<">">>)}

\* with printer.indented(indent): around later calls (one such scope at a time)
CallerEnter(indent) ==
    /\ phase = "idle"
    /\ ncalls < MaxCalls
    /\ stack = <<>>
    /\ printers' = [printers EXCEPT !.user = indented_enter(@, indent)]
    /\ stack' = <<CallerFrame(printers.user.indentation,
                              indented_enter(TFlowPrinter("buf"), indent).indentation)>> \o stack
    /\ UNCHANGED <<g, bufs, cur, root, exc, phase, ncalls, result, log, entry, expanded, userExpanded>>

\* the caller's with block ends (after a call that returned or raised)
CallerExit ==
    /\ phase = "idle"
    /\ stack # <<>>
    /\ printers' = [printers EXCEPT !.user = indented_exit(@, Top.pre, result \notin {"none", "returned"})]
    /\ stack' = Tail(stack)
    /\ UNCHANGED <<g, bufs, cur, root, exc, phase, ncalls, result, log, entry, expanded, userExpanded>>

Next ==
    \/ \E r \in Roots, pname \in {"user", "default"} : Call(r, pname)
    \/ \E r \in Roots, pname \in {"user", "default"} : CallRejected(r, pname)
    \/ Finish
    \/ Propagate
    \/ TensorHeader
    \/ TensorHeaderRaises
    \/ TensorReturn
    \/ EnterScope
    \/ PrintInputsVar
    \/ Expand
    \/ PrintEllipsis
    \/ ConstPrint
    \/ ConstRaises
    \/ ConstNodeDefVar
    \/ ExitScope
    \/ OpVisitInput
    \/ OpPrintOpaque
    \/ OpReturn
    \/ Unwind
    \/ \E indent \in CallerIndents : CallerEnter(indent)
    \/ CallerExit

\* The steps taken inside one call of tf_dprint.
Traverse ==
    \/ Finish \/ Propagate \/ TensorHeader \/ TensorHeaderRaises \/ TensorReturn
    \/ EnterScope \/ PrintInputsVar \/ Expand \/ PrintEllipsis \/ ConstPrint
    \/ ConstRaises \/ ConstNodeDefVar \/ ExitScope \/ OpVisitInput
    \/ OpPrintOpaque \/ OpReturn \/ Unwind

Spec == Init /\ [][Next]_vars

\* The call is synchronous code of one thread: once entered, it keeps running.
FairSpec == Spec /\ WF_vars(Traverse)


(***************************************************************************)
(* What the lines of the running (or last) call are                        *)
(***************************************************************************)
\* The lines the call has written so far to its printer's buffer.
CallLines == SubSeq(bufs[P.buffer], entry.buflen + 1, Len(bufs[P.buffer]))

\* The text handed to println for a logged line.
TextOf(e) ==
    CASE e.what = "header" -> prefix(g[e.node])
      [] e.what = "ellipsis" -> <<"...">>
      [] e.what = "inputsvar" -> <<"~inputs">>
      [] e.what = "payload" -> <<"array">>
      [] e.what = "node_def" -> <<"~node_def">>
      [] e.what = "opaque" -> <<"~x">>

RECURSIVE Incs(_, _)
\* The increments of the open scopes of the frames of s whose fn is in fns,
\* outermost first.
Incs(s, fns) ==
    IF s = <<>> THEN <<>>
    ELSE Incs(Tail(s), fns) \o (IF Head(s).fn \in fns THEN Head(s).inc ELSE <<>>)

(***************************************************************************)
(* C4: every line emitted is the concatenation of the increments of all    *)
(* the indentation scopes open when it is emitted, followed by its text:   *)
(* a header under d expanded value nodes has d copies of "|  " after the   *)
(* indentation the printer had when the call began (itself the             *)
(* concatenation of the caller's open scopes, empty for a new printer),    *)
(* and a "...", placeholder or payload line of that node has d + 1 copies. *)
(***************************************************************************)
C4_IndentationComposes ==
    /\ Len(CallLines) = Len(log)
    /\ \A i \in 1..Len(log) :
          CallLines[i] = entry.indentation \o Rep(Indent3, log[i].depth)
                            \o TextOf(log[i]) \o <<"\n">>
    /\ printers.user.indentation =
          Incs(stack, IF phase = "running" /\ cur = "user"
                      THEN {"caller", "tensor"} ELSE {"caller"})
    /\ (phase = "running" /\ cur = "default") =>
          printers.default.indentation = Incs(stack, {"tensor"})
    /\ (phase = "running" /\ cur = "default") => entry.indentation = <<>>

\* A "..." line two scopes deep, printed through a printer the caller had
\* already indented.
C4_Witness ==
    /\ entry.indentation # <<>>
    /\ \E i \in 1..Len(log) : log[i].what = "ellipsis" /\ log[i].depth >= 2

(***************************************************************************)
(* C3: when tf_dprint returns, or an exception raised at any depth of the  *)
(* traversal leaves it, the printer's indentation is the one it had when   *)
(* the call began; and every scope that is left, normally or by an         *)
(* exception, leaves the indentation held when it was entered.             *)
(***************************************************************************)
C3_IndentationRestored ==
    [][/\ (phase = "running" /\ phase' = "idle") =>
              printers'[cur].indentation = entry.indentation
       /\ (stack # <<>> /\ stack' = Tail(stack) /\ (InScope(Top) \/ Top.fn = "caller")) =>
              printers'[IF Top.fn = "caller" THEN "user" ELSE cur].indentation = Top.pre
      ]_vars

\* An exception raised inside a nested scope has left a call made through
\* an indented printer of the caller.
C3_Witness ==
    /\ phase = "idle" /\ cur = "user"
    /\ result \in {"Error", "AttributeError"}
    /\ entry.indentation # <<>>
    /\ \E i \in 1..Len(log) : log[i].depth >= 2
    /\ printers.user.indentation = entry.indentation

(***************************************************************************)
(* C5: tf_dprint on a tf.Tensor root whose .op is unavailable raises the   *)
(* ValueError of lines 59-63 at once: nothing is written, no printer is    *)
(* built or changed, and the traversal is not entered.                     *)
(***************************************************************************)
C5_NotInspectableRaisesCleanly ==
    [][(ncalls' = ncalls + 1 /\ g[root'].kind = "tf" /\ g[root'].op.st = "unavailable") =>
          /\ result' = "ValueError"
          /\ phase' = "idle"
          /\ bufs' = bufs
          /\ printers' = printers
          /\ stack' = stack
          /\ log' = <<>>
      ]_vars

\* The error is raised for a printer that earlier calls have written
\* through and that holds expanded value nodes.
C5_Witness ==
    /\ result = "ValueError" /\ cur = "user"
    /\ bufs.buf # <<>>
    /\ printers.user.printed_subgraphs # {}
    /\ printers.user.indentation # <<>>


(***************************************************************************)
(* Shorthands over the log                                                 *)
(***************************************************************************)
\* The producing operation of value node n is resolved and has inputs.
HasInputs(n) == g[n].op.st = "ok" /\ ~g[n].op.invar /\ Len(g[n].op.inputs) > 0

Range(s) == {s[k] : k \in 1..Len(s)}

IsHeaderOf(i, n) == log[i].what = "header" /\ log[i].node = n

\* No other value node of the graph has the fields of n.
Unique(n) == \A m \in Nodes : g[m] = g[n] => m = n

\* Line i is the first header of n printed through a printer that had not
\* expanded n before the call.
FirstOccurrence(i, n) ==
    /\ IsHeaderOf(i, n)
    /\ n \notin entry.printed
    /\ \A j \in 1..(i - 1) : ~IsHeaderOf(j, n)

\* The indentation in front of header line i.
HeaderIndent(i) ==
    SubSeq(CallLines[i], 1, Len(CallLines[i]) - Len(prefix(g[log[i].node])) - 1)

\* Header line i is followed by the single line "..." one scope deeper; if
\* no line follows yet, the node's frame is about to print it.
ThenEllipsis(i) ==
    IF i < Len(log)
    THEN /\ log[i + 1].what = "ellipsis"
         /\ log[i + 1].node = log[i].node
         /\ CallLines[i + 1] = HeaderIndent(i) \o Indent3 \o <<"...", "\n">>
    ELSE /\ phase = "running" /\ exc.type = "none"
         /\ stack # <<>>
         /\ Top.fn = "tensor" /\ Top.obj = log[i].node
         /\ Top.pc \in {"branch", "inputs"}

(***************************************************************************)
(* C1: through one printer a value node whose operation has inputs is      *)
(* expanded at most once: it enters the dedup set exactly when it is       *)
(* expanded, its first occurrence is followed by its first input (stated   *)
(* here for value nodes no other node equals field by field; C6 is about   *)
(* the others), and every later occurrence is its header followed by the   *)
(* single line "..." one scope deeper.                                     *)
(***************************************************************************)
C1_ExpandedAtMostOnce ==
    /\ \A i \in 1..Len(expanded), j \in 1..Len(expanded) :
          i # j => expanded[i] # expanded[j]
    /\ Range(expanded) \cap entry.printed = {}
    /\ ncalls > 0 /\ result # "ValueError" =>
          P.printed_subgraphs = entry.printed \cup Range(expanded)
    /\ \A i \in 1..Len(log) :
          (log[i].what = "header" /\ HasInputs(log[i].node)) =>
             IF FirstOccurrence(i, log[i].node)
             THEN (i < Len(log) /\ Unique(log[i].node)) =>
                     /\ log[i].node \in Range(expanded)
                     /\ log[i + 1].parent = log[i].node /\ log[i + 1].idx = 1
             ELSE /\ ThenEllipsis(i)
                  /\ i < Len(log) => (log[i].node \in entry.printed \/
                        \E j \in 1..(i - 1) : IsHeaderOf(j, log[i].node)
                                              /\ log[i].node \in Range(expanded))

\* The diamond, printed in full: node 3 feeds the root and node 2; it was
\* expanded under node 2 and its second occurrence is followed by "...".
C1_Witness ==
    /\ phase = "idle" /\ result = "returned"
    /\ g[1].op.inputs = <<2, 3>> /\ g[2].op.inputs = <<3>> /\ g[3].op.inputs = <<4>>
    /\ expanded = <<1, 2, 3>>
    /\ \E i \in 1..Len(log), j \in 1..Len(log) :
          /\ i < j /\ j < Len(log)
          /\ IsHeaderOf(i, 3) /\ IsHeaderOf(j, 3)
          /\ log[i + 1].what = "header" /\ log[j + 1].what = "ellipsis"

(***************************************************************************)
(* C6: two distinct value nodes with equal fields, both with inputs, are   *)
(* both expanded: the first occurrence of each is followed by its first    *)
(* input, never by "...", whether or not the other was expanded before.    *)
(***************************************************************************)
C6_TwinsBothExpanded ==
    \A a \in Nodes, b \in Nodes :
       (a # b /\ g[a] = g[b] /\ HasInputs(b)) =>
          \A j \in 1..Len(log) :
             (FirstOccurrence(j, b) /\ j < Len(log)) =>
                /\ log[j + 1].what # "ellipsis"
                /\ log[j + 1].parent = b
                /\ b \in Range(expanded)

\* Both twins have been expanded in one call, the second after the first.
C6_Witness ==
    \E a \in Nodes, b \in Nodes :
       /\ a # b /\ g[a] = g[b] /\ HasInputs(b)
       /\ phase = "idle" /\ result = "returned"
       /\ \E i \in 1..Len(expanded), j \in 1..Len(expanded) :
             i < j /\ expanded[i] = a /\ expanded[j] = b


(***************************************************************************)
(* C8: the caller's printer keeps every value node it ever expanded, over  *)
(* all calls: a value node with inputs expanded in an earlier call is, in  *)
(* a later call through that printer, its header followed by "..." and is  *)
(* not expanded again.  A call without a printer starts from indentation   *)
(* "" and an empty dedup set whatever the earlier calls did: the first     *)
(* occurrence of every value node with inputs is expanded.                 *)
(***************************************************************************)
C8_DedupAcrossCalls ==
    /\ userExpanded \subseteq printers.user.printed_subgraphs
    /\ cur = "user" =>
          \A i \in 1..Len(log) :
             (log[i].what = "header" /\ HasInputs(log[i].node)
                /\ log[i].node \in userExpanded \ Range(expanded)) => ThenEllipsis(i)
    /\ (cur = "default" /\ ncalls > 0 /\ result # "ValueError") =>
          /\ entry.indentation = <<>>
          /\ entry.printed = {}
          /\ \A i \in 1..Len(log) :
                (log[i].what = "header" /\ HasInputs(log[i].node) /\ i < Len(log)
                   /\ Unique(log[i].node)
                   /\ \A j \in 1..(i - 1) : ~IsHeaderOf(j, log[i].node)) =>
                      /\ log[i + 1].what # "ellipsis"
                      /\ log[i].node \in Range(expanded)

\* In the second call through the caller's printer, a value node expanded
\* in the first call is its header followed by "...".
C8_Witness ==
    /\ ncalls = 2 /\ cur = "user" /\ phase = "idle" /\ result = "returned"
    /\ \E i \in 1..Len(log) :
          /\ log[i].what = "header" /\ HasInputs(log[i].node)
          /\ log[i].node \in userExpanded \ Range(expanded)
          /\ i < Len(log) /\ log[i + 1].what = "ellipsis"

(***************************************************************************)
(* C9: a value node whose operation is a placeholder prints its header     *)
(* and nothing else; one whose input list is a placeholder prints its      *)
(* header and the placeholder's string one scope deeper.  Neither raises   *)
(* nor enters the dedup set, and the next line printed is the next input   *)
(* of the consuming operation (unless that input raises before printing).  *)
(***************************************************************************)
HasNextSibling(e) == e.parent # 0 /\ e.idx < Len(g[e.parent].op.inputs)

\* Line k is where the line after a placeholder node (header at line i)
\* belongs: the next input of the same operation, or a shallower line.
ContinuesAt(i, k) ==
    IF k <= Len(log)
    THEN IF HasNextSibling(log[i])
         THEN /\ log[k].parent = log[i].parent
              /\ log[k].idx = log[i].idx + 1
              /\ log[k].what \in {"header", "opaque"}
              /\ log[k].depth = log[i].depth
         ELSE log[k].depth < log[i].depth
    ELSE HasNextSibling(log[i]) =>
            \/ phase = "running" /\ exc.type = "none"
            \/ /\ exc.type # "none"
               /\ exc.parent = log[i].parent /\ exc.idx = log[i].idx + 1

C9_PlaceholdersStopOnlyTheirBranch ==
    /\ \A n \in Nodes :
          (g[n].op.st = "var" \/ g[n].op.invar) =>
             /\ n \notin printers.user.printed_subgraphs
             /\ n \notin printers.default.printed_subgraphs
             /\ exc.node # n
    /\ \A i \in 1..Len(log) :
          log[i].what = "header" =>
             /\ g[log[i].node].op.st = "var" => ContinuesAt(i, i + 1)
             /\ (g[log[i].node].op.st = "ok" /\ g[log[i].node].op.invar) =>
                   IF i < Len(log)
                   THEN /\ log[i + 1].what = "inputsvar"
                        /\ CallLines[i + 1] = HeaderIndent(i) \o Indent3 \o <<"~inputs", "\n">>
                        /\ ContinuesAt(i, i + 2)
                   ELSE /\ phase = "running" /\ exc.type = "none"
                        /\ stack # <<>>
                        /\ Top.obj = log[i].node

\* Both kinds of placeholder as the first input, each followed by the
\* header of the second input, in a call that returned.
C9_Witness ==
    /\ phase = "idle" /\ result = "returned"
    /\ \E i \in 1..Len(log) :
          /\ log[i].what = "header" /\ g[log[i].node].op.st = "var"
          /\ log[i].idx = 1 /\ i < Len(log)
          /\ log[i + 1].what = "header" /\ log[i + 1].idx = 2
          /\ g[log[i + 1].node].op.invar
          /\ i + 2 = Len(log)

(***************************************************************************)
(* C10: an operation prints no line of its own and visits its inputs in    *)
(* input-list order, the whole subtree of one input before the header of   *)
(* the next: of the lines printed since an operation was entered, those at *)
(* its inputs' depth are exactly the inputs started so far, in order, and  *)
(* all others are deeper.                                                  *)
(***************************************************************************)
\* The depth at which the inputs of the operation frame at stack[k] print.
ChildDepth(k) == Cardinality({j \in (k + 1)..Len(stack) : stack[j].fn = "tensor"})

\* The inputs of the operation frame at stack[k] whose first line is out:
\* all those the loop has taken, but for one whose frame has not printed its
\* header yet or has raised at line 85 instead of printing it.
Started(k) ==
    IF \/ k > 1 /\ stack[k - 1].fn = "tensor" /\ stack[k - 1].pc = "start"
       \/ /\ exc.type = "AttributeError"
          /\ exc.parent = stack[k].obj /\ exc.idx = stack[k].i - 1
    THEN stack[k].i - 2 ELSE stack[k].i - 1

C10_InputsInOrder ==
    \A k \in 1..Len(stack) :
       stack[k].fn = "op" =>
          LET f == stack[k]
              d == ChildDepth(k)
              at == {j \in (f.mark + 1)..Len(log) : log[j].depth = d}
          IN /\ \A j \in (f.mark + 1)..Len(log) : log[j].depth >= d
             /\ f.mark < Len(log) => f.mark + 1 \in at
             /\ Cardinality(at) = Started(k)
             /\ \A j \in at :
                   /\ log[j].parent = f.obj
                   /\ log[j].idx = Cardinality({m \in at : m <= j})
                   /\ IF g[f.obj].op.inputs[log[j].idx] \in Nodes
                      THEN log[j].what = "header"
                           /\ log[j].node = g[f.obj].op.inputs[log[j].idx]
                      ELSE log[j].what = "opaque"

\* A two-input operation has visited both inputs, the first with lines of
\* its own subtree, and is about to return.
C10_Witness ==
    \E k \in 1..Len(stack) :
       /\ stack[k].fn = "op" /\ stack[k].i = 3
       /\ g[stack[k].obj].op.inputs[1] # g[stack[k].obj].op.inputs[2]
       /\ Len(log) >= stack[k].mark + 4
       /\ log[stack[k].mark + 2].depth > log[stack[k].mark + 1].depth


(***************************************************************************)
(* C2: chains of one-input operations                                      *)
(***************************************************************************)
IsOneInputOp(n) == g[n].op.st = "ok" /\ ~g[n].op.invar /\ Len(g[n].op.inputs) = 1

RECURSIVE ChainOps(_, _)
\* The number of one-input operations from n down, to the first input that
\* is no such value node or was met before.
ChainOps(n, seen) ==
    IF n \notin Nodes \/ n \in seen THEN 0
    ELSE IF ~IsOneInputOp(n) THEN 0
    ELSE 1 + ChainOps(g[n].op.inputs[1], seen \cup {n})

RECURSIVE ChainNodes(_, _)
\* The value nodes met from n down: those the operations produce and, if
\* it is a value node, the input of the last operation.
ChainNodes(n, seen) ==
    IF n \notin Nodes THEN <<>>
    ELSE IF n \in seen \/ ~IsOneInputOp(n) THEN <<n>>
    ELSE <<n>> \o ChainNodes(g[n].op.inputs[1], seen \cup {n})

\* r heads a chain of one or more operations with exactly one input each:
\* the input of the last is no value node, a value node whose operation is
\* unresolved or has no inputs, or a value node of the chain itself.
IsChain(r) ==
    /\ IsOneInputOp(r)
    /\ LET ns == ChainNodes(r, {})
           last == ns[Len(ns)]
       IN Len(ns) = ChainOps(r, {}) \/ ~HasInputs(last) \/ \E k \in 1..(Len(ns) - 1) : ns[k] = last

\* A call through a printer that has printed nothing yet has returned.
FreshCallReturned ==
    /\ phase = "idle" /\ ncalls > 0 /\ result = "returned"
    /\ entry.printed = {} /\ entry.indentation = <<>>

HeaderLines == {i \in 1..Len(log) : log[i].what = "header"}

\* C2 as stated: a chain of N one-input operations prints N header lines,
\* in producer order, each one "|  " deeper than the one before.
C2_Original ==
    (FreshCallReturned /\ IsChain(root)) =>
       /\ Cardinality(HeaderLines) = ChainOps(root, {})
       /\ \A i \in HeaderLines : log[i].depth = Cardinality({j \in HeaderLines : j < i})

(***************************************************************************)
(* C2, amended: a chain of N one-input operations prints a header for each *)
(* of the N value nodes the operations produce and one more for the input  *)
(* of the last operation when that input is a value node (N + 1 headers;   *)
(* N when it is not), in producer order, each header indented by exactly   *)
(* one "|  " more than the one before; at most one line follows them, and  *)
(* it is no header.                                                        *)
(***************************************************************************)
C2_ChainHeaders ==
    (FreshCallReturned /\ IsChain(root)) =>
       LET ns == ChainNodes(root, {})
       IN /\ Len(ns) \in {ChainOps(root, {}), ChainOps(root, {}) + 1}
          /\ HeaderLines = 1..Len(ns)
          /\ Len(log) <= Len(ns) + 1
          /\ \A k \in 1..Len(ns) :
                /\ k <= Len(log)
                /\ log[k].node = ns[k]
                /\ CallLines[k] = Rep(Indent3, k - 1) \o prefix(g[ns[k]]) \o <<"\n">>

\* The longest chain, fed by a value node, has been printed: one header
\* more than it has operations.
C2_Witness ==
    /\ FreshCallReturned /\ IsChain(root)
    /\ ChainOps(root, {}) = MaxChain
    /\ Cardinality(HeaderLines) = MaxChain + 1

(***************************************************************************)
(* C7: a call of tf_dprint terminates on every graph, cyclic ones          *)
(* included.  While the call runs a step is always possible, and every     *)
(* step lowers a natural number: the steps left to the frames on the stack *)
(* plus the cost of expanding each value node not yet in the dedup set.    *)
(* Hence the call ends after finitely many steps, and every run that       *)
(* keeps stepping reaches the end of the call.                             *)
(***************************************************************************)
\* The steps left to a frame.  A visit of a value node that does not expand
\* it takes four: header, entering the scope, the line in it, leaving the
\* scope.  An operation takes one step per input left, each followed by
\* that input's visit, and one to return.
FrameCost(f) ==
    CASE f.fn = "tensor" ->
            (CASE f.pc = "start" -> 4
               [] f.pc = "branch" -> 3
               [] f.pc = "exit" -> 1
               [] OTHER -> 2)
      [] f.fn = "op" -> (Len(g[f.obj].op.inputs) - f.i + 1) * 5 + 1
      [] OTHER -> 0

RECURSIVE StackCost(_)
StackCost(s) == IF s = <<>> THEN 0 ELSE FrameCost(Head(s)) + StackCost(Tail(s))

\* What expanding n adds to the stack: its operation's frame.
ExpandCost(n) == Len(g[n].op.inputs) * 5 + 1

RECURSIVE SumExpandCost(_)
SumExpandCost(S) ==
    IF S = {} THEN 0
    ELSE LET n == CHOOSE x \in S : TRUE IN ExpandCost(n) + SumExpandCost(S \ {n})

Unexpanded == {n \in Nodes : HasInputs(n) /\ n \notin P.printed_subgraphs}

Measure ==
    IF phase # "running" THEN 0
    ELSE IF exc.type # "none"
         THEN 1 + Cardinality({k \in 1..Len(stack) : stack[k].fn # "caller"})
         ELSE 1 + StackCost(stack) + SumExpandCost(Unexpanded)

C7_Terminates ==
    /\ [](phase = "running" => ENABLED Traverse)
    /\ [][phase = "running" => Measure' < Measure]_vars
    /\ (phase = "running") ~> (phase = "idle")

\* On a cycle of MaxChain operations the call has returned, having printed
\* the root twice and expanded every node once.
C7_Witness ==
    /\ phase = "idle" /\ result = "returned"
    /\ \E k \in 1..Len(expanded) : g[expanded[k]].op.inputs = <<root>> /\ k = MaxChain
    /\ \E i \in 2..Len(log) : IsHeaderOf(i, root) /\ IsHeaderOf(1, root)

====
